---------------------------- MODULE Spec2Model ----------------------------
(***************************************************************************)
(* Model of next-bundle-size-action.  The repository holds two variants of *)
(* the action:                                                             *)
(*   "store"   - src/src/index.js: per-page sizes, base snapshot read from *)
(*               a "Bundle Size Stats" issue, push runs call               *)
(*               storeBundleStats;                                         *)
(*   "rebuild" - src/unnamed/part_000: per-route sizes, base snapshot made *)
(*               by checking out and rebuilding the base branch.           *)
(* A run of the action is a sequence of steps (pc); every external call    *)
(* (git, npm, the GitHub API) may succeed or fail.                         *)
(***************************************************************************)
EXTENDS Integers, Sequences, FiniteSets, TLC

VARIABLES
    variant,          \* which of the two programs is installed
    pc,               \* position of the run
    eventName,        \* context.eventName
    commentStrategy,  \* input comment-strategy
    disk,             \* the build output (.next) in the working directory
    head,             \* the commit the working checkout is at
    currentRef,       \* getBaseBranchStats: const currentRef (try block)
    currentStats,     \* run: currentBundleStats
    baseStats,        \* baseStats
    commentBody,      \* handlePullRequest: commentBody
    botComment,       \* handlePullRequest: botComment (index, 0: undefined)
    gate,             \* outcome of the comment-strategy test
    failed,           \* core.setFailed was called
    restoreAttempts,  \* number of `git checkout <ref>` restore commands run
    comments,         \* the comments of the pull request, oldest first
    statsIssue,       \* the open issue labelled bundle-stats, if any
    call,             \* a call of a pure function: its name and arguments
    ret               \* its return value

runVars == <<variant, pc, eventName, commentStrategy, disk, head, currentRef,
             currentStats, baseStats, commentBody, botComment, gate, failed,
             restoreAttempts, comments, statsIssue>>
fnVars == <<call, ret>>
vars == <<runVars, fnVars>>

(***************************************************************************)
(* JavaScript values                                                       *)
(***************************************************************************)
Null == [kind |-> "null"]
Pending == [kind |-> "pending"]

Truthy(v) == v.kind \notin {"null", "undefined"}

Abs(x) == IF x < 0 THEN -x ELSE x

RECURSIVE Pow(_, _)
Pow(b, e) == IF e = 0 THEN 1 ELSE b * Pow(b, e - 1)

(***************************************************************************)
(* formatBytes                                                             *)
(***************************************************************************)
k == 1024
sizes == <<"B", "KB", "MB", "GB">>

\* Math.floor(Math.log(x) / Math.log(base)) for an integer x >= 1
RECURSIVE LogFloor(_, _)
LogFloor(x, base) == IF x < base THEN 0 ELSE 1 + LogFloor(x \div base, base)

\* round(10 * r / den) for 0 <= r < den, den a power of k, halves upwards;
\* the arithmetic is arranged to stay below 2^31
RoundTenths(r, den) ==
    IF den = 1 THEN 0
    ELSE (den \div 1024 + 5 * (r \div 256) + (5 * (r % 256)) \div 256)
             \div (den \div 512)

\* (num / den).toFixed(1): the decimal string, kept as sign, integer part
\* and the one fractional digit.  Number.prototype.toFixed rounds the exact
\* value to the nearest tenth and takes the larger of two equally near.
toFixed1(num, den) ==
    LET a == Abs(num)
        n == 10 * (a \div den) + RoundTenths(a % den, den)
    IN  [neg |-> num < 0, int |-> n \div 10, frac |-> n % 10]

\* parseFloat of such a string: the number, here in tenths
parseFloat(s) == (IF s.neg THEN -1 ELSE 1) * (10 * s.int + s.frac)

\* `${number}` for a number given in tenths: Number::toString prints no
\* fractional part for an integer
NumberToString(tenths) ==
    LET a == Abs(tenths)
        sign == IF tenths < 0 THEN "-" ELSE ""
    IN  IF a % 10 = 0
        THEN sign \o ToString(a \div 10)
        ELSE sign \o ToString(a \div 10) \o "." \o ToString(a % 10)

\* The mutant keeps the string toFixed made: it leaves out the parseFloat
formatBytes_noParseFloat(bytes) ==
    IF bytes = 0 THEN "0 B"
    ELSE LET i == LogFloor(Abs(bytes), k)
             s == toFixed1(bytes, Pow(k, i))
         IN  (IF s.neg THEN "-" ELSE "") \o ToString(s.int) \o "."
                 \o ToString(s.frac) \o " " \o sizes[i + 1]

formatBytes(bytes) ==
    IF bytes = 0 THEN "0 B"
    ELSE LET i == LogFloor(Abs(bytes), k)
             unit == IF i + 1 <= Len(sizes) THEN sizes[i + 1] ELSE "undefined"
         IN  NumberToString(parseFloat(toFixed1(bytes, Pow(k, i))))
                 \o " " \o unit

\* diff > 0 ? `+${formatBytes(diff)}` : formatBytes(diff)
signedFormat(diff) ==
    IF diff > 0 THEN "+" \o formatBytes(diff) ELSE formatBytes(diff)

\* diff > 0 ? increase : diff < 0 ? decrease : unchanged (the three glyphs)
changeIconOf(diff) ==
    IF diff > 0 THEN "increase" ELSE IF diff < 0 THEN "decrease" ELSE "unchanged"


(***************************************************************************)
(* The build output: a manifest and the regular files below .next.  A path *)
(* is the sequence of its components; a directory is a proper prefix of    *)
(* the path of a file.                                                     *)
(***************************************************************************)
IsPrefix(d, p) == Len(d) <= Len(p) /\ SubSeq(p, 1, Len(d)) = d

\* fs.pathExists for the path of an asset
pathExists(files, p) == p \in DOMAIN files

isDirectory(files, p) == \E q \in DOMAIN files : IsPrefix(p, q) /\ Len(q) > Len(p)

dirExists(files, d) == \E q \in DOMAIN files : IsPrefix(d, q) /\ Len(q) > Len(d)

\* fs.readdir(dir): the names of the entries of dir
readdir(files, dir) ==
    {q[Len(dir) + 1] : q \in {x \in DOMAIN files : IsPrefix(dir, x) /\ Len(x) > Len(dir)}}

\* const calculateDirSize = async (dir) => ...: the loop over the items
RECURSIVE calculateDirSize(_, _)
RECURSIVE SumItems(_, _, _)
SumItems(files, dir, items) ==
    IF items = {} THEN 0
    ELSE LET item == CHOOSE x \in items : TRUE
             itemPath == dir \o <<item>>
             here == IF isDirectory(files, itemPath)
                     THEN calculateDirSize(files, itemPath)
                     ELSE files[itemPath]
         IN  here + SumItems(files, dir, items \ {item})

calculateDirSize(files, dir) == SumItems(files, dir, readdir(files, dir))

\* The directory the asset paths of the manifest are joined to:
\* path.join(nextDir, 'static', file) in index.js, path.join(nextDir, file)
\* in part_000
assetRoot(v) == IF v = "store" THEN <<"static">> ELSE <<>>

\* the inner loop: for (const file of files) ...; the sum of the sizes of
\* the files found, and their number
RECURSIVE routeSize(_, _, _)
routeSize(files, root, listed) ==
    IF listed = <<>> THEN 0
    ELSE (IF pathExists(files, root \o Head(listed))
          THEN files[root \o Head(listed)] ELSE 0)
         + routeSize(files, root, Tail(listed))

RECURSIVE foundFiles(_, _, _)
foundFiles(files, root, listed) ==
    IF listed = <<>> THEN 0
    ELSE (IF pathExists(files, root \o Head(listed)) THEN 1 ELSE 0)
         + foundFiles(files, root, Tail(listed))

\* stats[route] = { size: totalSize, files: ... }: index.js stores
\* files.length, part_000 stores foundFiles
routeStat(v, files, entry) ==
    [route |-> entry.route,
     size  |-> routeSize(files, assetRoot(v), entry.files),
     files |-> IF v = "store" THEN Len(entry.files)
               ELSE foundFiles(files, assetRoot(v), entry.files)]

\* the outer loop over Object.entries(manifest.pages), in the manifest's order
analyzeRoutes(v, files, pages) ==
    [i \in 1..Len(pages) |-> routeStat(v, files, pages[i])]

\* analyzeBundleSize(workingDir): null when the manifest is missing or
\* cannot be read, else the snapshot (the timestamp is left out; the
\* property that holds the per-route figures, `pages` in index.js and
\* `routes` in part_000, is called routes here)
analyzeBundleSize(v, d) ==
    IF d.manifest.kind # "json" THEN Null
    ELSE [kind |-> "object",
          routes |-> IF "pages" \in DOMAIN d.manifest
                     THEN analyzeRoutes(v, d.files, d.manifest.pages)
                     ELSE <<>>,
          totalSize |-> IF dirExists(d.files, <<"static">>)
                        THEN calculateDirSize(d.files, <<"static">>)
                        ELSE 0]

(***************************************************************************)
(* Snapshots as objects: property lookup                                   *)
(***************************************************************************)
\* Object.keys(stats.routes), in insertion order
Keys(routes) == [i \in 1..Len(routes) |-> routes[i].route]

KeySet(routes) == {routes[i].route : i \in 1..Len(routes)}

\* stats.routes[route] || { size: 0, files: 0 }
routeOr0(routes, route) ==
    IF route \in KeySet(routes)
    THEN LET i == CHOOSE j \in 1..Len(routes) : routes[j].route = route
         IN  [size |-> routes[i].size, files |-> routes[i].files]
    ELSE [size |-> 0, files |-> 0]

IsSnapshot(v) == v.kind = "object" /\ "routes" \in DOMAIN v


(***************************************************************************)
(* The report                                                              *)
(***************************************************************************)
Marker == "<!-- BUNDLE-SIZE-BOT -->"

\* generateCurrentStatsTable(stats)
generateCurrentStatsTable(stats) ==
    [title |-> "Current Bundle Sizes",
     rows  |-> [i \in 1..Len(stats.routes) |->
                  [route |-> stats.routes[i].route,
                   size  |-> formatBytes(stats.routes[i].size),
                   files |-> stats.routes[i].files]],
     total |-> formatBytes(stats.totalSize)]

\* The mutant walks the routes of the current snapshot only
allRoutes_currentOnly(currentRoutes, baseRoutes) == Keys(currentRoutes)

\* new Set([...Object.keys(current), ...Object.keys(base)]): the keys of
\* current, then those of base not among them
allRoutes(currentRoutes, baseRoutes) ==
    Keys(currentRoutes)
        \o SelectSeq(Keys(baseRoutes), LAMBDA r : r \notin KeySet(currentRoutes))

\* one row of the comparison table
comparisonRow(currentStats_, baseStats_, route) ==
    LET current == routeOr0(currentStats_.routes, route)
        base == routeOr0(baseStats_.routes, route)
        diff == current.size - base.size
    IN  [route |-> route,
         current |-> formatBytes(current.size),
         base |-> formatBytes(base.size),
         diff |-> diff,
         diffFormatted |-> signedFormat(diff),
         changeIcon |-> changeIconOf(diff)]

\* generateComparisonTable(currentStats, baseStats)
generateComparisonTable(currentStats_, baseStats_) ==
    LET all == allRoutes(currentStats_.routes, baseStats_.routes)
        totalDiff == currentStats_.totalSize - baseStats_.totalSize
    IN  [title |-> "Bundle Size Comparison",
         rows  |-> [i \in 1..Len(all) |->
                      comparisonRow(currentStats_, baseStats_, all[i])],
         total |-> formatBytes(currentStats_.totalSize),
         totalDiff |-> totalDiff,
         totalDiffFormatted |-> signedFormat(totalDiff),
         totalChangeIcon |-> changeIconOf(totalDiff)]

\* generateComparisonComment throws (TypeError: Object.keys(undefined)) when
\* baseStats is truthy and has no per-route object
generateComparisonCommentThrows(currentStats_, baseStats_) ==
    Truthy(baseStats_) /\ ~IsSnapshot(baseStats_)

\* generateComparisonComment(currentStats, baseStats)
generateComparisonComment(currentStats_, baseStats_) ==
    [marker |-> Marker,
     note   |-> ~Truthy(baseStats_),
     table  |-> IF ~Truthy(baseStats_)
                THEN generateCurrentStatsTable(currentStats_)
                ELSE generateComparisonTable(currentStats_, baseStats_)]

\* comment.body.includes('<!-- BUNDLE-SIZE-BOT -->')
includesMarker(body) == body.marker = Marker

\* The mutant tests totalDiff >= threshold
hasSignificantChanges_atLeast(currentStats_, baseStats_, threshold) ==
    IF ~Truthy(baseStats_) THEN TRUE
    ELSE Abs(currentStats_.totalSize - baseStats_.totalSize) >= threshold

\* hasSignificantChanges(currentStats, baseStats, threshold = 1024)
hasSignificantChanges(currentStats_, baseStats_, threshold) ==
    IF ~Truthy(baseStats_) THEN TRUE
    ELSE IF "totalSize" \notin DOMAIN baseStats_ THEN FALSE  \* NaN > threshold
    ELSE Abs(currentStats_.totalSize - baseStats_.totalSize) > threshold

DefaultThreshold == 1024

(***************************************************************************)
(* The record store of index.js: an open issue labelled bundle-stats whose *)
(* title includes 'Bundle Size Stats'                                      *)
(***************************************************************************)
NoIssue == [exists |-> FALSE]

\* getBaseBranchStats(octokit, owner, repo, baseBranch) of index.js, given
\* the issue data the API returned
loadStats(issue) ==
    IF ~issue.exists THEN Null                       \* statsIssue undefined
    ELSE IF ~issue.hasBody THEN Null                 \* statsIssue.body falsy
    ELSE IF ~issue.hasBlock THEN Null                \* no ```json block
    ELSE IF ~issue.json.valid THEN Null              \* JSON.parse throws, caught
    ELSE issue.json.value


(***************************************************************************)
(* Bounds and the inputs of a run                                          *)
(***************************************************************************)
\* issues.listComments is called with no per_page and no page: the API
\* returns the first page, 30 comments, oldest first
PerPage == 30
\* create no comment beyond PerPage + MaxExtra comments on the pull request
MaxExtra == 2

EmptyBody == [marker |-> "", note |-> FALSE, table |-> [title |-> "other"]]

RECURSIVE OtherComments(_)
OtherComments(n) == IF n = 0 THEN <<>> ELSE Append(OtherComments(n - 1), EmptyBody)

\* the comments other people left on the pull request before the first run
InitialComments == {OtherComments(n) : n \in {0, 1, PerPage - 1, PerPage}}

ManifestPages ==
    << [route |-> "/",
        files |-> << <<"static", "a.js">>, <<"static", "chunks", "b.js">> >>],
       [route |-> "/about", files |-> << <<"static", "c.js">> >>] >>

BuiltFiles(sizeB) ==
    (<<"static", "a.js">> :> 2048) @@ (<<"static", "chunks", "b.js">> :> sizeB)

Built(sizeB) ==
    [manifest |-> [kind |-> "json", pages |-> ManifestPages],
     files |-> BuiltFiles(sizeB)]

NotBuilt == [manifest |-> [kind |-> "missing"], files |-> <<>>]

Unparsable == [manifest |-> [kind |-> "unparsable"], files |-> BuiltFiles(1024)]

\* the build outputs a run may find: totals 3072, 4096 and 4097
Builds == {NotBuilt, Unparsable} \cup {Built(b) : b \in {1024, 2048, 2049}}

EventNames == {"pull_request", "push"}
CommentStrategies == {"always", "skip-insignificant"}

IssueWith(v) ==
    [exists |-> TRUE, hasBody |-> TRUE, hasBlock |-> TRUE,
     json |-> [valid |-> TRUE, value |-> v]]

\* the states of the persisted record
StatsIssues ==
    {NoIssue,
     [exists |-> TRUE, hasBody |-> FALSE, hasBlock |-> FALSE, json |-> [valid |-> FALSE]],
     [exists |-> TRUE, hasBody |-> TRUE, hasBlock |-> FALSE, json |-> [valid |-> FALSE]],
     [exists |-> TRUE, hasBody |-> TRUE, hasBlock |-> TRUE, json |-> [valid |-> FALSE]],
     IssueWith(Null),
     IssueWith([kind |-> "object"])}
    \cup {IssueWith(analyzeBundleSize("store", Built(b))) : b \in {1024, 2048}}

(***************************************************************************)
(* The run                                                                 *)
(***************************************************************************)
isPR == eventName = "pull_request"

FnIdle == call = Null /\ ret = Null

RunInit ==
    /\ pc = "idle"
    /\ eventName = "none"
    /\ commentStrategy = "none"
    /\ disk = NotBuilt
    /\ head = "pr"
    /\ currentRef = "none"
    /\ currentStats = Null
    /\ baseStats = Null
    /\ commentBody = Null
    /\ botComment = 0
    /\ gate = "none"
    /\ failed = FALSE
    /\ restoreAttempts = 0

Init ==
    /\ RunInit
    /\ variant \in {"store", "rebuild"}
    /\ comments \in InitialComments
    /\ statsIssue \in IF variant = "store" THEN StatsIssues ELSE {NoIssue}
    /\ FnIdle

\* a run starts: the workflow has checked out the pull request's commit and
\* built it (or not); run() reads its inputs
Start ==
    /\ pc = "idle"
    /\ eventName' \in EventNames
    /\ commentStrategy' \in CommentStrategies
    /\ disk' \in Builds
    /\ pc' = "run"
    /\ UNCHANGED <<variant, head, currentRef, currentStats, baseStats,
                   commentBody, botComment, gate, failed, restoreAttempts,
                   comments, statsIssue, fnVars>>

\* part_000: if (!isPR) return
NotPullRequest ==
    /\ pc = "run" /\ variant = "rebuild" /\ ~isPR
    /\ pc' = "done"
    /\ UNCHANGED <<variant, eventName, commentStrategy, disk, head, currentRef,
                   currentStats, baseStats, commentBody, botComment, gate,
                   failed, restoreAttempts, comments, statsIssue, fnVars>>

\* The mutant marks the run failed and goes on to the next step
AnalyzeCurrent_noReturn ==
    /\ pc = "run" /\ (variant = "store" \/ isPR)
    /\ currentStats' = analyzeBundleSize(variant, disk)
    /\ failed' = (failed \/ ~Truthy(currentStats'))
    /\ pc' = IF variant = "rebuild" THEN "revParse"
             ELSE IF isPR THEN "getBase" ELSE "store"
    /\ UNCHANGED <<variant, eventName, commentStrategy, disk, head, currentRef,
                   baseStats, commentBody, botComment, gate, restoreAttempts,
                   comments, statsIssue, fnVars>>

\* const currentBundleStats = await analyzeBundleSize(workingDirectory);
\* if (!currentBundleStats) { core.setFailed(...); return; }
AnalyzeCurrent ==
    /\ pc = "run" /\ (variant = "store" \/ isPR)
    /\ currentStats' = analyzeBundleSize(variant, disk)
    /\ IF ~Truthy(currentStats')
       THEN failed' = TRUE /\ pc' = "done"
       ELSE /\ failed' = failed
            /\ pc' = IF variant = "rebuild" THEN "revParse"
                     ELSE IF isPR THEN "getBase" ELSE "store"
    /\ UNCHANGED <<variant, eventName, commentStrategy, disk, head, currentRef,
                   baseStats, commentBody, botComment, gate, restoreAttempts,
                   comments, statsIssue, fnVars>>

\* index.js storeBundleStats(stats, context): two log lines
storeBundleStats ==
    /\ pc = "store"
    /\ pc' = "done"
    /\ UNCHANGED <<variant, eventName, commentStrategy, disk, head, currentRef,
                   currentStats, baseStats, commentBody, botComment, gate,
                   failed, restoreAttempts, comments, statsIssue, fnVars>>

\* index.js getBaseBranchStats: issues.listForRepo answers or fails
getBaseBranchStats_store ==
    /\ pc = "getBase"
    /\ \E apiOk \in BOOLEAN :
          baseStats' = IF apiOk THEN loadStats(statsIssue) ELSE Null
    /\ pc' = "handlePullRequest"
    /\ UNCHANGED <<variant, eventName, commentStrategy, disk, head, currentRef,
                   currentStats, commentBody, botComment, gate, failed,
                   restoreAttempts, comments, statsIssue, fnVars>>


(***************************************************************************)
(* part_000 getBaseBranchStats(workingDir, baseBranch, npmInstallArgs):    *)
(* each execSync returns or throws into the catch block                    *)
(***************************************************************************)
\* const currentRef = execSync('git rev-parse HEAD').trim()
RevParse ==
    /\ pc = "revParse"
    /\ \E ok \in BOOLEAN :
          IF ok THEN currentRef' = head /\ pc' = "fetch"
          ELSE currentRef' = currentRef /\ pc' = "catch"
    /\ UNCHANGED <<variant, eventName, commentStrategy, disk, head,
                   currentStats, baseStats, commentBody, botComment, gate,
                   failed, restoreAttempts, comments, statsIssue, fnVars>>

\* execSync(`git fetch origin ${baseBranch}`)
Fetch ==
    /\ pc = "fetch"
    /\ \E ok \in BOOLEAN : pc' = IF ok THEN "checkout" ELSE "catch"
    /\ UNCHANGED <<variant, eventName, commentStrategy, disk, head, currentRef,
                   currentStats, baseStats, commentBody, botComment, gate,
                   failed, restoreAttempts, comments, statsIssue, fnVars>>

\* execSync(`git checkout origin/${baseBranch}`): a checkout that fails
\* leaves HEAD where it was
Checkout ==
    /\ pc = "checkout"
    /\ \E ok \in BOOLEAN :
          IF ok THEN head' = "base" /\ pc' = "npmCi"
          ELSE head' = head /\ pc' = "catch"
    /\ UNCHANGED <<variant, eventName, commentStrategy, disk, currentRef,
                   currentStats, baseStats, commentBody, botComment, gate,
                   failed, restoreAttempts, comments, statsIssue, fnVars>>

\* execSync(`npm ci ${npmInstallArgs}`)
NpmCi ==
    /\ pc = "npmCi"
    /\ \E ok \in BOOLEAN : pc' = IF ok THEN "build" ELSE "catch"
    /\ UNCHANGED <<variant, eventName, commentStrategy, disk, head, currentRef,
                   currentStats, baseStats, commentBody, botComment, gate,
                   failed, restoreAttempts, comments, statsIssue, fnVars>>

\* execSync('npm run build'): a build that returns has written the build
\* output of the base branch; one that throws has left some build output
NpmRunBuild ==
    /\ pc = "build"
    /\ disk' \in Builds
    /\ \E ok \in BOOLEAN : pc' = IF ok THEN "analyzeBase" ELSE "catch"
    /\ UNCHANGED <<variant, eventName, commentStrategy, head, currentRef,
                   currentStats, baseStats, commentBody, botComment, gate,
                   failed, restoreAttempts, comments, statsIssue, fnVars>>

\* const baseStats = await analyzeBundleSize(workingDir)
AnalyzeBase ==
    /\ pc = "analyzeBase"
    /\ baseStats' = analyzeBundleSize(variant, disk)
    /\ pc' = "restore"
    /\ UNCHANGED <<variant, eventName, commentStrategy, disk, head, currentRef,
                   currentStats, commentBody, botComment, gate, failed,
                   restoreAttempts, comments, statsIssue, fnVars>>

\* execSync(`git checkout ${currentRef}`); return baseStats
Restore ==
    /\ pc = "restore"
    /\ restoreAttempts' = restoreAttempts + 1
    /\ \E ok \in BOOLEAN :
          IF ok THEN head' = currentRef /\ pc' = "handlePullRequest"
          ELSE head' = head /\ pc' = "catch"
    /\ UNCHANGED <<variant, eventName, commentStrategy, disk, currentRef,
                   currentStats, baseStats, commentBody, botComment, gate,
                   failed, comments, statsIssue, fnVars>>

\* catch: const currentRef = execSync('git rev-parse HEAD').trim(): the
\* commit the checkout is at now, not the one saved in the try block
catchRef(head_, saved_) == head_

\* catch (error): rev-parse HEAD again and check that commit out; either
\* command may throw into the inner catch; return null
CatchRestore ==
    /\ pc = "catch"
    /\ \E revParseOk \in BOOLEAN, checkoutOk \in BOOLEAN :
          IF revParseOk
          THEN /\ restoreAttempts' = restoreAttempts + 1
               /\ head' = IF checkoutOk THEN catchRef(head, currentRef) ELSE head
          ELSE /\ restoreAttempts' = restoreAttempts
               /\ head' = head
    /\ baseStats' = Null
    /\ pc' = "handlePullRequest"
    /\ UNCHANGED <<variant, eventName, commentStrategy, disk, currentRef,
                   currentStats, commentBody, botComment, gate, failed,
                   comments, statsIssue, fnVars>>


(***************************************************************************)
(* handlePullRequest                                                       *)
(***************************************************************************)
\* commentStrategy === 'skip-insignificant' && !hasSignificantChanges(...)
skipComment(strategy, currentStats_, baseStats_) ==
    /\ strategy = "skip-insignificant"
    /\ ~hasSignificantChanges(currentStats_, baseStats_, DefaultThreshold)

\* an error that leaves handlePullRequest: index.js lets it reach the catch
\* of run(), which calls core.setFailed; part_000 catches it and logs
publishError(v) == v = "store"

\* the comment is rendered, then the comment strategy is tested
handlePullRequest ==
    /\ pc = "handlePullRequest"
    /\ IF generateComparisonCommentThrows(currentStats, baseStats)
       THEN /\ failed' = TRUE      \* TypeError, caught by run()
            /\ pc' = "done"
            /\ UNCHANGED <<commentBody, gate>>
       ELSE /\ commentBody' = generateComparisonComment(currentStats, baseStats)
            /\ failed' = failed
            /\ IF skipComment(commentStrategy, currentStats, baseStats)
               THEN gate' = "skip" /\ pc' = "done"
               ELSE /\ gate' = "publish"
                    /\ pc' = IF variant = "rebuild" THEN "pullsGet"
                             ELSE "listComments"
    /\ UNCHANGED <<variant, eventName, commentStrategy, disk, head, currentRef,
                   currentStats, baseStats, botComment, restoreAttempts,
                   comments, statsIssue, fnVars>>

\* part_000: await octokit.rest.pulls.get(...)
PullsGet ==
    /\ pc = "pullsGet"
    /\ \E ok \in BOOLEAN : pc' = IF ok THEN "listComments" ELSE "done"
    /\ UNCHANGED <<variant, eventName, commentStrategy, disk, head, currentRef,
                   currentStats, baseStats, commentBody, botComment, gate,
                   failed, restoreAttempts, comments, statsIssue, fnVars>>

\* comments.data: what issues.listComments returns
firstPage(all) == SubSeq(all, 1, IF Len(all) < PerPage THEN Len(all) ELSE PerPage)

\* comments.data.find(comment => comment.body.includes(marker)): the index
\* of the first such comment, 0 for undefined
findBotComment(data) ==
    IF \E i \in 1..Len(data) : includesMarker(data[i])
    THEN CHOOSE i \in 1..Len(data) :
            /\ includesMarker(data[i])
            /\ \A j \in 1..(i - 1) : ~includesMarker(data[j])
    ELSE 0

\* await octokit.rest.issues.listComments(...); const botComment = ...
ListComments ==
    /\ pc = "listComments"
    /\ \E ok \in BOOLEAN :
          IF ok
          THEN /\ botComment' = findBotComment(firstPage(comments))
               /\ pc' = IF botComment' # 0 THEN "updateComment" ELSE "createComment"
               /\ failed' = failed
          ELSE /\ botComment' = botComment
               /\ pc' = "done"
               /\ failed' = (failed \/ publishError(variant))
    /\ UNCHANGED <<variant, eventName, commentStrategy, disk, head, currentRef,
                   currentStats, baseStats, commentBody, gate, restoreAttempts,
                   comments, statsIssue, fnVars>>

\* await octokit.rest.issues.updateComment({comment_id: botComment.id, body})
UpdateComment ==
    /\ pc = "updateComment"
    /\ \E ok \in BOOLEAN :
          IF ok
          THEN /\ comments' = [comments EXCEPT ![botComment] = commentBody]
               /\ failed' = failed
          ELSE /\ comments' = comments
               /\ failed' = (failed \/ publishError(variant))
    /\ pc' = "done"
    /\ UNCHANGED <<variant, eventName, commentStrategy, disk, head, currentRef,
                   currentStats, baseStats, commentBody, botComment, gate,
                   restoreAttempts, statsIssue, fnVars>>

\* await octokit.rest.issues.createComment({issue_number, body})
CreateComment ==
    /\ pc = "createComment"
    /\ \E ok \in BOOLEAN :
          IF ok /\ Len(comments) < PerPage + MaxExtra
          THEN /\ comments' = Append(comments, commentBody)
               /\ failed' = failed
          ELSE /\ comments' = comments
               /\ failed' = (failed \/ publishError(variant))
    /\ pc' = "done"
    /\ UNCHANGED <<variant, eventName, commentStrategy, disk, head, currentRef,
                   currentStats, baseStats, commentBody, botComment, gate,
                   restoreAttempts, statsIssue, fnVars>>

\* the run is over; the next run starts on a fresh checkout
Finish ==
    /\ pc = "done"
    /\ pc' = "idle"
    /\ eventName' = "none"
    /\ commentStrategy' = "none"
    /\ disk' = NotBuilt
    /\ head' = "pr"
    /\ currentRef' = "none"
    /\ currentStats' = Null
    /\ baseStats' = Null
    /\ commentBody' = Null
    /\ botComment' = 0
    /\ gate' = "none"
    /\ failed' = FALSE
    /\ restoreAttempts' = 0
    /\ UNCHANGED <<variant, comments, statsIssue, fnVars>>

Next ==
    \/ Start
    \/ NotPullRequest
    \/ AnalyzeCurrent
    \/ storeBundleStats
    \/ getBaseBranchStats_store
    \/ RevParse
    \/ Fetch
    \/ Checkout
    \/ NpmCi
    \/ NpmRunBuild
    \/ AnalyzeBase
    \/ Restore
    \/ CatchRestore
    \/ handlePullRequest
    \/ PullsGet
    \/ ListComments
    \/ UpdateComment
    \/ CreateComment
    \/ Finish

Spec == Init /\ [][Next]_vars


(***************************************************************************)
(* Properties of a run                                                     *)
(***************************************************************************)
\* the steps of handlePullRequest and after: getBaseBranchStats has returned
BaseReturned ==
    pc \in {"handlePullRequest", "pullsGet", "listComments", "updateComment",
            "createComment"}

MarkerCount(all) == Cardinality({i \in 1..Len(all) : includesMarker(all[i])})

\* C1: in the rebuild strategy, when getBaseBranchStats has returned
\* (whichever of its steps failed, or none), the working checkout is back at
\* the commit that was HEAD before it started.
C1_CheckoutRestored ==
    (variant = "rebuild" /\ BaseReturned) => head = "pr"

\* C2: after any sequence of pull-request runs the pull request holds at
\* most one comment whose body contains the marker (a publish updates the
\* marker comment when there is one and creates one only when there is none).
C2_AtMostOneMarkerComment == MarkerCount(comments) <= 1

\* C3: the run is marked failed only when the current snapshot could not be
\* produced; a failure to obtain the base snapshot or to publish the comment
\* never marks it failed.
C3_FailedOnlyWithoutCurrent == failed => ~Truthy(currentStats)

\* C5: in the record store, what storeBundleStats saved is what the next
\* load returns: after the save step the stored record loads as the snapshot
\* that was saved.
C5_SaveThenLoad ==
    [][(pc = "store" /\ pc' = "done") => loadStats(statsIssue') = currentStats]_vars

\* a record the store can load a snapshot from
WellFormedRecord(issue) ==
    /\ issue.exists /\ issue.hasBody /\ issue.hasBlock /\ issue.json.valid
    /\ IsSnapshot(issue.json.value)

\* C6: whatever the persisted record is (none, no JSON block, unparsable
\* JSON, JSON that is no snapshot), the load returns null, and the run
\* renders the current-only report.
C6_LoadToleratesMalformed ==
    (variant = "store" /\ ~WellFormedRecord(statsIssue)) =>
        /\ pc = "handlePullRequest" => baseStats = Null
        /\ pc \in {"listComments", "updateComment", "createComment"} =>
              (commentBody # Null /\ commentBody.note)
        /\ (pc = "done" /\ isPR /\ Truthy(currentStats)) => commentBody # Null

TotalDiff == Abs(currentStats.totalSize - baseStats.totalSize)

\* C8: once the comment strategy has been tested, 'always' publishes, and
\* 'skip-insignificant' skips exactly when there is a base snapshot and the
\* total changed by less than 1 KB (1024 bytes).
C8_GateByStrategy ==
    gate # "none" =>
        /\ commentStrategy = "always" => gate = "publish"
        /\ commentStrategy = "skip-insignificant" =>
              (gate = "skip" <=> (Truthy(baseStats) /\ TotalDiff < 1024))


(***************************************************************************)
(* Calls of the pure functions on inputs drawn from bounded sets           *)
(***************************************************************************)
\* formatBytes is called on every integer of -MaxSmall..MaxSmall
MaxSmall == 1100
\* a route of a generated manifest lists at most MaxAssets assets
MaxAssets == 2

RouteKeys == {"/", "/about"}

\* the sequences without repetition of at most two route keys
KeyOrders ==
    {<<>>} \cup {<<r>> : r \in RouteKeys}
           \cup {o \in RouteKeys \X RouteKeys : o[1] # o[2]}

SeqsUpTo(S, n) == UNION {[1..m -> S] : m \in 0..n}

FormatInputs ==
    (-MaxSmall..MaxSmall)
    \cup {1536, 2000, -2000, 2048, -2048, 10240, 1048524, 1048525, 1048575,
          1048576, 1048577, -1048576, 1572864, 600000, 598000, 99999999,
          1073741823, 1073741824, 1610612736, 2147483647, -1073741824}

FormatCalls == {[fn |-> "formatBytes", bytes |-> b] : b \in FormatInputs}

RouteStatsOf(keys, sizeOf) ==
    [i \in 1..Len(keys) |->
       [route |-> keys[i], size |-> sizeOf[keys[i]],
        files |-> IF sizeOf[keys[i]] = 0 THEN 0 ELSE 2]]

RouteSeqs ==
    {RouteStatsOf(keys, sizeOf) : keys \in KeyOrders,
                                  sizeOf \in [RouteKeys -> {0, 500, 1500}]}

Snapshots(totals) ==
    {[kind |-> "object", routes |-> r, totalSize |-> t] :
        r \in RouteSeqs, t \in totals}

SigSnapshots ==
    {[kind |-> "object", routes |-> RouteStatsOf(keys, sizeOf), totalSize |-> t] :
        keys \in {<<>>, <<"/", "/about">>},
        sizeOf \in {[r \in RouteKeys |-> 500], [r \in RouteKeys |-> 1500]},
        t \in {0, 1, 1023, 1024, 1025, 2048, 2049, 598000, 600000}}

SigCalls ==
    {[fn |-> "hasSignificantChanges", current |-> c, base |-> b, threshold |-> t] :
        c \in SigSnapshots, b \in SigSnapshots \cup {Null}, t \in {0, 1, 1024}}

TableCalls ==
    {[fn |-> "generateComparisonTable", a |-> a, b |-> b] :
        a \in Snapshots({598000, 600000}), b \in Snapshots({598000, 600000})}

\* the asset paths a generated manifest lists; the files a generated build
\* output may hold below .next/static
AssetPaths ==
    {<<"a.js">>, <<"chunks", "b.js">>, <<"static", "a.js">>,
     <<"static", "chunks", "b.js">>}

FileSizes == {500, 1000}

GeneratedFiles ==
    {<<>>} \cup {(<<"static", "a.js">> :> x) : x \in FileSizes}
           \cup {(<<"static", "chunks", "b.js">> :> y) : y \in FileSizes}
           \cup {(<<"static", "a.js">> :> x) @@ (<<"static", "chunks", "b.js">> :> y) :
                    x \in FileSizes, y \in FileSizes}

GeneratedPages ==
    {[i \in 1..Len(keys) |-> [route |-> keys[i], files |-> listed[keys[i]]]] :
        keys \in KeyOrders,
        listed \in [RouteKeys -> SeqsUpTo(AssetPaths, MaxAssets)]}

GeneratedManifests ==
    {[kind |-> "missing"], [kind |-> "unparsable"], [kind |-> "json"]}
    \cup {[kind |-> "json", pages |-> pg] : pg \in GeneratedPages}

AnalyzeCalls ==
    {[fn |-> "analyzeBundleSize", variant |-> v,
      disk |-> [manifest |-> m, files |-> f]] :
        v \in {"store", "rebuild"}, m \in GeneratedManifests, f \in GeneratedFiles}

InitCalls ==
    /\ RunInit
    /\ variant = "rebuild"
    /\ comments = <<>>
    /\ statsIssue = NoIssue
    /\ call \in FormatCalls \cup SigCalls \cup TableCalls \cup AnalyzeCalls
    /\ ret = Pending

CallFormatBytes ==
    /\ call.fn = "formatBytes" /\ ret = Pending
    /\ ret' = [kind |-> "string", value |-> formatBytes(call.bytes)]
    /\ UNCHANGED <<runVars, call>>

CallHasSignificantChanges ==
    /\ call.fn = "hasSignificantChanges" /\ ret = Pending
    /\ ret' = [kind |-> "boolean",
               value |-> hasSignificantChanges(call.current, call.base, call.threshold)]
    /\ UNCHANGED <<runVars, call>>

\* the comparison of a against b, and of b against a
CallGenerateComparisonTable ==
    /\ call.fn = "generateComparisonTable" /\ ret = Pending
    /\ ret' = [kind |-> "tables",
               ab |-> generateComparisonTable(call.a, call.b),
               ba |-> generateComparisonTable(call.b, call.a)]
    /\ UNCHANGED <<runVars, call>>

CallAnalyzeBundleSize ==
    /\ call.fn = "analyzeBundleSize" /\ ret = Pending
    /\ ret' = analyzeBundleSize(call.variant, call.disk)
    /\ UNCHANGED <<runVars, call>>

NextCalls ==
    \/ CallFormatBytes
    \/ CallHasSignificantChanges
    \/ CallGenerateComparisonTable
    \/ CallAnalyzeBundleSize

SpecCalls == InitCalls /\ [][NextCalls]_vars


(***************************************************************************)
(* Properties of the pure functions                                        *)
(***************************************************************************)
Returned(fn) == call # Null /\ call.fn = fn /\ ret # Pending

RECURSIVE SumSeq(_)
SumSeq(q) == IF q = <<>> THEN 0 ELSE Head(q) + SumSeq(Tail(q))

\* the listed assets of a route that are on disk, as the variant resolves them
OnDisk(v, files, listed) ==
    SelectSeq(listed, LAMBDA f : (assetRoot(v) \o f) \in DOMAIN files)

SizesOf(v, files, found) ==
    [i \in 1..Len(found) |-> files[assetRoot(v) \o found[i]]]

\* C4: analyze gives every route of the manifest, in both variants, the sum
\* of the sizes of its listed assets that are on disk and the number of
\* those assets; a route with none of them is still there with 0 and 0.
C4_RouteStatsCountFound ==
    (Returned("analyzeBundleSize") /\ call.disk.manifest.kind = "json"
        /\ "pages" \in DOMAIN call.disk.manifest) =>
        LET pages == call.disk.manifest.pages
            files == call.disk.files
        IN  /\ IsSnapshot(ret)
            /\ Len(ret.routes) = Len(pages)
            /\ \A i \in 1..Len(pages) :
                  LET found == OnDisk(call.variant, files, pages[i].files)
                  IN  /\ ret.routes[i].route = pages[i].route
                      /\ ret.routes[i].size = SumSeq(SizesOf(call.variant, files, found))
                      /\ ret.routes[i].files = Len(found)

\* C7: hasSignificantChanges is true when there is no base snapshot, and
\* else true exactly when the two totals differ by more than the threshold,
\* whatever the per-route sizes are.
C7_SignificantIffTotalsDiffer ==
    Returned("hasSignificantChanges") =>
        (ret.value <=>
            (call.base = Null
             \/ Abs(call.current.totalSize - call.base.totalSize) > call.threshold))

\* the totals differ by exactly the threshold, the per-route sizes differ
\* too, and the change is not significant
C7_Witness ==
    /\ Returned("hasSignificantChanges")
    /\ call.base # Null
    /\ call.threshold = 1024
    /\ Abs(call.current.totalSize - call.base.totalSize) = call.threshold
    /\ call.current.routes # call.base.routes
    /\ ret.value = FALSE

RowRoutes(rows) == {rows[i].route : i \in 1..Len(rows)}

RowOf(rows, route) == rows[CHOOSE i \in 1..Len(rows) : rows[i].route = route]

Opposite(icon) ==
    IF icon = "increase" THEN "decrease"
    ELSE IF icon = "decrease" THEN "increase" ELSE "unchanged"

\* C9: the comparison of A against B and that of B against A have one row
\* for each route of either snapshot; each delta is the difference of the
\* two sizes, a route missing on one side counted as 0, and is the negation
\* of the other comparison's, as is the total delta; the markers are swapped.
C9_ComparisonAntisymmetric ==
    Returned("generateComparisonTable") =>
        LET ab == ret.ab
            ba == ret.ba
            union == KeySet(call.a.routes) \cup KeySet(call.b.routes)
        IN  /\ RowRoutes(ab.rows) = union
            /\ RowRoutes(ba.rows) = union
            /\ Len(ab.rows) = Cardinality(union)
            /\ Len(ba.rows) = Cardinality(union)
            /\ \A r \in union :
                  /\ RowOf(ab.rows, r).diff =
                        routeOr0(call.a.routes, r).size - routeOr0(call.b.routes, r).size
                  /\ RowOf(ab.rows, r).diff = -RowOf(ba.rows, r).diff
                  /\ RowOf(ab.rows, r).changeIcon = Opposite(RowOf(ba.rows, r).changeIcon)
            /\ ab.totalDiff = -ba.totalDiff
            /\ ab.totalChangeIcon = Opposite(ba.totalChangeIcon)

\* a route of B that A does not have, with a non-zero size, and totals that
\* differ
C9_Witness ==
    /\ Returned("generateComparisonTable")
    /\ \E r \in KeySet(call.b.routes) \ KeySet(call.a.routes) :
          /\ RowOf(ret.ab.rows, r).changeIcon = "decrease"
          /\ RowOf(ret.ba.rows, r).changeIcon = "increase"
    /\ ret.ab.totalChangeIcon = "increase"


\* the largest unit of B, KB, MB, GB in which the magnitude is at least 1
UnitIndex(a) ==
    CHOOSE u \in 0..3 : Pow(k, u) <= a /\ (u = 3 \/ a < Pow(k, u + 1))

\* the magnitude in that unit, in tenths, rounded to the nearest tenth
NearestTenths(a) == (20 * a + Pow(k, UnitIndex(a))) \div (2 * Pow(k, UnitIndex(a)))

\* the integers the general statement is checked on (20 * a stays below 2^31)
InExactRange(b) == Abs(b) <= 100000000

\* one fractional digit, always
OneDigitText(b) ==
    (IF b < 0 THEN "-" ELSE "") \o ToString(NearestTenths(Abs(b)) \div 10) \o "."
        \o ToString(NearestTenths(Abs(b)) % 10) \o " " \o sizes[UnitIndex(Abs(b)) + 1]

\* one fractional digit, none when it would be 0
ShortText(b) ==
    (IF b < 0 THEN "-" ELSE "") \o ToString(NearestTenths(Abs(b)) \div 10)
        \o (IF NearestTenths(Abs(b)) % 10 = 0 THEN ""
            ELSE "." \o ToString(NearestTenths(Abs(b)) % 10))
        \o " " \o sizes[UnitIndex(Abs(b)) + 1]

C11_RestoreAttemptedOnce ==
    (variant = "rebuild" /\ BaseReturned) =>
        /\ restoreAttempts <= 1
        /\ head = "base" => restoreAttempts = 1


\* the run has called analyzeBundleSize on its build output and the call
\* has returned
Analyzed == pc \notin {"idle", "run"} /\ (variant = "store" \/ isPR)

\* the steps in which the base snapshot is obtained
ObtainingBase ==
    pc \in {"getBase", "revParse", "fetch", "checkout", "npmCi", "build",
            "analyzeBase", "restore", "catch"}

\* the steps in which the comment is published
Publishing == pc \in {"pullsGet", "listComments", "updateComment", "createComment"}

\* where a run is in the order of its steps
C12_Order ==
    /\ pc \in {"idle", "run"} =>
          /\ currentStats = Null /\ baseStats = Null /\ commentBody = Null
          /\ head = "pr" /\ restoreAttempts = 0 /\ gate = "none"
    /\ (ObtainingBase \/ pc = "handlePullRequest") =>
          /\ Truthy(currentStats) /\ commentBody = Null /\ gate = "none"
    /\ ObtainingBase => isPR
    /\ Publishing =>
          /\ Truthy(currentStats) /\ gate = "publish"
          /\ commentBody = generateComparisonComment(currentStats, baseStats)
    /\ (head = "base" \/ restoreAttempts > 0 \/ Truthy(baseStats)) =>
          Truthy(currentStats)
    /\ (Analyzed /\ ~Truthy(currentStats)) =>
          /\ pc = "done" /\ failed
          /\ head = "pr" /\ currentRef = "none" /\ restoreAttempts = 0
          /\ baseStats = Null /\ commentBody = Null /\ gate = "none"
          /\ botComment = 0

\* what a step may do before and after the current snapshot
C12_Step ==
    /\ head' # head /\ head' = "base" =>
          Truthy(currentStats) /\ currentStats' = currentStats
    /\ baseStats' # baseStats /\ Truthy(baseStats') =>
          Truthy(currentStats) /\ currentStats' = currentStats
    /\ comments' # comments =>
          /\ Truthy(currentStats) /\ currentStats' = currentStats
          /\ Publishing /\ includesMarker(commentBody)
          /\ \E i \in 1..Len(comments') : comments'[i] = commentBody
    /\ (pc = "run" /\ (variant = "store" \/ isPR) /\ ~Truthy(currentStats')) =>
          /\ pc' = "done" /\ failed'
          /\ UNCHANGED <<head, currentRef, restoreAttempts, baseStats,
                         commentBody, gate, botComment, comments, statsIssue>>

\* C12: the steps of a run happen in the order analyze current, obtain base,
\* render, publish: the checkout is switched to the base branch, a base
\* snapshot is obtained and a comment is published only in a run that holds
\* its current snapshot, the comment published is the one rendered from the
\* two snapshots, and a run whose analysis of the current build returns no
\* snapshot (manifest missing or unparsable) goes straight to its end, marked
\* failed, with no checkout switch, no base lookup and no publish.
C12_StepsInOrder == []C12_Order /\ [][C12_Step]_vars

\* a pull-request run of the rebuild variant has ended failed on a build with
\* no readable manifest, on a pull request where an earlier run has gone
\* through every step and published its comment
C12_Witness ==
    /\ variant = "rebuild" /\ pc = "done" /\ Analyzed
    /\ ~Truthy(currentStats) /\ failed
    /\ MarkerCount(comments) >= 1

=============================================================================
